---- MODULE Spec2Model ----
(***************************************************************************)
(* TwitterScraperOptimized (src/twit_posts.py): the paginated, batched,   *)
(* rate-limit-aware collection loop of scrape_tweets, with the thread     *)
(* pool that normalizes the items of a page, the persistence of batches   *)
(* and of the full dataset, and the delivery of an interrupt; and          *)
(* scrape_fb_posts (src/fb.py), the loop over the posts of a page.         *)
(*                                                                         *)
(* The platform is the environment: it owns a feed of raw items, answers  *)
(* a search request for a cursor with a slice of the feed (or with an     *)
(* error status), and the file system may fail a write.  Time is counted  *)
(* in abstract units.                                                      *)
(***************************************************************************)
EXTENDS Integers, Sequences, FiniteSets, TLC

\* ---------------------------------------------------------------- bounds
MaxPageLen     == 3   \* most raw items the platform puts in one page
MaxItemFaults  == 1   \* most normalization failures (exception, timeout) in a run
MaxWriteFaults == 3   \* most failed file writes in a run
MaxNetFaults   == 2   \* most transient network failures in a run
MaxTime        == 4   \* the clock stops counting there; no reset time of a 200 response is later
MaxFbPosts     == 11  \* most posts the post source of scrape_fb_posts yields

\* ------------------------------------------------------ program constants
max_workers       == 3     \* ThreadPoolExecutor(max_workers=3)
SaveAttempts      == 3     \* for attempt in range(3) of _save_batch
FullAttempts      == 3     \* for attempt in range(3) of the final write
FetchAttempts     == 2     \* stop_after_attempt(2)
DefaultRemaining  == 900   \* requests_remaining after a reset
DefaultResetDelay == 900   \* time.time() + 900 when the header is absent
BackoffDelay      == 4     \* wait_exponential(min=4)
PaceDelay         == 1     \* asyncio.sleep(1.1)

fb_total_limit    == 10    \* total_limit of fb.py

None   == 0        \* next_token = None; also the id of a raw item without 'id'
Absent == -1       \* a response header that is not present

\* The platform's feed for the query: the tweet id of each raw item, in the
\* order the platform serves them; 0 is an item without an id.
LongFeed == <<1, 2, 3, 4, 5, 6, 7, 8, 9, 10, 11, 12, 13>>
DupFeed  == <<1, 1, 2, 0, 1, 3>>
ShortFeed == <<1, 1, 2, 3>>

\* What the environment of a run may do: how many normalization failures,
\* failed writes, transient network failures and interrupts it injects, the
\* values of the x-rate-limit headers it sends, and the raw items of the feed
\* whose 'created_at' is a text that is no ISO date (bad_ts) or is not there
\* (no_ts).
Quiet == [item |-> 0, write |-> 0, net |-> 0, intr |-> 0,
          rem |-> {5}, probe_rem |-> {Absent}, probe_reset |-> {Absent},
          bad_ts |-> {}, no_ts |-> {}]

\* The runs explored: a feed, the configuration fields batch_size and
\* total_limit of the scraper, and an environment.
Scenarios ==
    { [feed |-> LongFeed, batch_size |-> 5, total_limit |-> 13,
       env |-> [Quiet EXCEPT !.bad_ts = {4}, !.no_ts = {13}]],
      [feed |-> DupFeed, batch_size |-> 2, total_limit |-> 3,
       env |-> [Quiet EXCEPT !.item = MaxItemFaults]],
      [feed |-> DupFeed, batch_size |-> 2, total_limit |-> 3,
       env |-> [Quiet EXCEPT !.write = MaxWriteFaults]],
      [feed |-> DupFeed, batch_size |-> 2, total_limit |-> 3,
       env |-> [Quiet EXCEPT !.net = MaxNetFaults, !.rem = {Absent, 0},
                             !.probe_rem = {Absent, 0}, !.probe_reset = {Absent, MaxTime - 1}]],
      [feed |-> DupFeed, batch_size |-> 2, total_limit |-> 3,
       env |-> [Quiet EXCEPT !.intr = 1, !.write = 1]],
      [feed |-> ShortFeed, batch_size |-> 1, total_limit |-> 2,
       env |-> [Quiet EXCEPT !.item = MaxItemFaults, !.write = MaxWriteFaults,
                             !.net = 1, !.intr = 1]] }

VARIABLES
    feed,                 \* the platform's items for the query (environment)
    env,                  \* what the environment may do in this run
    total_limit,          \* self.total_limit
    batch_size,           \* self.batch_size
    pc,                   \* position of the coroutine scrape_tweets
    tweets_data,          \* self.tweets_data, the accumulator
    processed_tweet_ids,  \* self.processed_tweet_ids
    batch_data,           \* local batch_data, the pending batch buffer
    batch_num,            \* local batch_num
    next_token,           \* local next_token, the cursor
    requests_remaining,   \* self.requests_remaining
    rate_limit_reset,     \* self.rate_limit_reset
    session,              \* self.session: "open" or "closed"
    now,                  \* time.time()
    attempt,              \* attempt number of the current _fetch_tweets_async call
    resp_next,            \* response['meta'].get('next_token') of the current page
    futures,              \* the futures of the current page, in submission order (late: result() timed out)
    fidx,                 \* index of the future the for loop is at
    save_attempt,         \* attempt number inside _save_batch
    save_ctx,             \* the call site of the running _save_batch
    full_attempt,         \* attempt number of the final dataset write
    batch_files,          \* tweets_batch_<n>.json: contents
    output_file,          \* tweets_data.json: contents
    probed,               \* history: the answer of the probe
    last_fetch,           \* history: the last search request sent and its answer
    save_calls,           \* history: the calls of _save_batch
    full_writes,          \* history: number of attempts to write the dataset
    exit_reason,          \* history: the branch by which the while loop ended
    outcome,              \* how scrape_tweets ended
    returned,             \* the list scrape_tweets returned
    intr_at,              \* history: where the interrupt arrived
    item_faults, write_faults, net_faults,  \* fault budgets used
    posts_data,           \* fb.py: the local posts_data of scrape_fb_posts
    fb_pc,                \* fb.py: position of scrape_fb_posts
    fb_yielded,           \* fb.py: number of posts get_posts has yielded
    fb_output_file,       \* fb.py: fb_posts_data.json: contents
    fb_writes,            \* fb.py, history: number of attempts to write the file
    fb_outcome,           \* fb.py, history: how scrape_fb_posts ended
    fb_returned           \* fb.py: the list scrape_fb_posts returned

vars == << feed, env, total_limit, batch_size, pc, tweets_data, processed_tweet_ids,
           batch_data, batch_num, next_token, requests_remaining, rate_limit_reset,
           session, now, attempt, resp_next, futures, fidx, save_attempt, save_ctx,
           full_attempt, batch_files, output_file, probed, last_fetch, save_calls, full_writes,
           exit_reason, outcome, returned, intr_at, item_faults, write_faults, net_faults,
           posts_data, fb_pc, fb_yielded, fb_output_file, fb_writes, fb_outcome,
           fb_returned >>

\* ---------------------------------------------------------------- helpers
Min(a, b) == IF a < b THEN a ELSE b
Max(a, b) == IF a > b THEN a ELSE b

\* tweet.get('created_at') of raw item k (line 183): an ISO date, another
\* text, or None
RawDate(k) ==
    IF k \in env.no_ts THEN "none"
    ELSE IF k \in env.bad_ts THEN "text"
    ELSE "iso"

\* the record _process_tweet builds (lines 192-244): its tweet_id, the raw
\* item it came from, and its 'timestamp': the platform's date (0: before the
\* run) or, when fromisoformat raises ValueError, datetime.now() (lines 184-190)
Record(k) == [tweet_id |-> feed[k], src |-> k,
              timestamp |-> IF RawDate(k) = "iso" THEN 0 ELSE now]

\* the contents of a file: not there, written whole by json.dump, or left
\* truncated by a write that failed after open(filename, 'w')
NoFile      == [st |-> "absent", data |-> << >>]
Written(d)  == [st |-> "written", data |-> d]
PartialFile == [st |-> "partial", data |-> << >>]

\* no search request sent yet
NoFetch == [cursor |-> None, attempt |-> 0, status |-> "none", at |-> 0]

\* the clock after a sleep that ends at time t
Clock(t) == Min(t, MaxTime)

AllDone == \A i \in 1..Len(futures) : futures[i].st = "done"

\* ------------------------------------------------------------------- Init
\* scrape_fb_posts at its first line (fb.py lines 19-20)
FbStart ==
    /\ posts_data = << >>
    /\ fb_pc = "iter"
    /\ fb_yielded = 0
    /\ fb_output_file = NoFile
    /\ fb_writes = 0
    /\ fb_outcome = "running"
    /\ fb_returned = << >>

\* __init__ (lines 32-42) and the locals of scrape_tweets (lines 327-329),
\* for a run out of S
TwitterStart(S) ==
    /\ \E sc \in S :
          /\ feed = sc.feed
          /\ env = sc.env
          /\ total_limit = sc.total_limit
          /\ batch_size = sc.batch_size
    /\ pc = "probe"
    /\ tweets_data = << >>
    /\ processed_tweet_ids = {}
    /\ batch_data = << >>
    /\ batch_num = 0
    /\ next_token = None
    /\ requests_remaining = DefaultRemaining
    /\ rate_limit_reset = 0
    /\ session = "closed"
    /\ now = 1
    /\ attempt = 1
    /\ resp_next = None
    /\ futures = << >>
    /\ fidx = 1
    /\ save_attempt = 1
    /\ save_ctx = "none"
    /\ full_attempt = 1
    /\ batch_files = [n \in 0..Len(feed) |-> NoFile]
    /\ output_file = NoFile
    /\ probed = [status |-> "none", rem |-> Absent]
    /\ last_fetch = NoFetch
    /\ save_calls = << >>
    /\ full_writes = 0
    /\ exit_reason = "none"
    /\ outcome = "running"
    /\ returned = << >>
    /\ intr_at = "none"
    /\ item_faults = 0
    /\ write_faults = 0
    /\ net_faults = 0

\* a run of scrape_tweets; scrape_fb_posts is not run
Init == TwitterStart(Scenarios) /\ FbStart

\* ------------------------------------------------------- variable groups
fbv   == << posts_data, fb_pc, fb_yielded, fb_output_file, fb_writes, fb_outcome,
            fb_returned >>
\* what no step of scrape_tweets changes: the feed, the configuration, and
\* the state of scrape_fb_posts
cfgv  == << feed, env, total_limit, batch_size, fbv >>
\* the state of the Twitter scraper, which no step of scrape_fb_posts changes
twv   == << feed, env, total_limit, batch_size, pc, tweets_data, processed_tweet_ids,
            batch_data, batch_num, next_token, requests_remaining, rate_limit_reset,
            session, now, attempt, resp_next, futures, fidx, save_attempt, save_ctx,
            full_attempt, batch_files, output_file, probed, last_fetch, save_calls,
            full_writes, exit_reason, outcome, returned, intr_at, item_faults,
            write_faults, net_faults >>
ratev == << requests_remaining, rate_limit_reset, now >>
accv  == << tweets_data, batch_data, batch_num >>
poolv == << futures, fidx, resp_next >>
savev == << save_attempt, save_ctx, save_calls >>
filev == << batch_files, output_file, full_writes, write_faults >>
endv  == << outcome, returned >>

\* ------------------------------------------------- control continuations
\* `while len(self.tweets_data) < self.total_limit` (line 331), evaluated on
\* the accumulator td
LoopTest(td) ==
    IF Len(td) < total_limit
    THEN /\ pc' = "fetch"
         /\ attempt' = 1
         /\ UNCHANGED exit_reason
    ELSE /\ pc' = "final"
         /\ exit_reason' = "limit"
         /\ UNCHANGED attempt

\* a `break` of the while loop (lines 359, 363, 368, 372, 374, 377)
LoopExit(reason) ==
    /\ pc' = "final"
    /\ exit_reason' = reason

\* `return self.tweets_data` (line 392) and the finally clause (line 403)
Return ==
    /\ pc' = "done"
    /\ outcome' = "returned"
    /\ returned' = tweets_data
    /\ session' = "closed"

\* `if self.tweets_data:` ... `else:` (lines 380-392)
FullStage ==
    IF tweets_data # << >>
    THEN /\ pc' = "full"
         /\ full_attempt' = 1
         /\ UNCHANGED << outcome, returned, session >>
    ELSE /\ Return
         /\ UNCHANGED full_attempt

\* the for loop over the futures moves to the next future, or ends (line 342)
NextFuture ==
    IF fidx < Len(futures)
    THEN /\ fidx' = fidx + 1
         /\ pc' = "collect"
    ELSE /\ pc' = "join"
         /\ UNCHANGED fidx

\* variant: the limit is not tested inside the page
LimitCheckNever(td) == NextFuture

\* `if len(self.tweets_data) >= self.total_limit: break` (lines 352-353)
LimitCheck(td) ==
    IF Len(td) >= total_limit
    THEN /\ pc' = "join"
         /\ UNCHANGED fidx
    ELSE NextFuture

\* the call self._save_batch(batch_data, batch_num) from call site ctx
StartSave(bd, ctx) ==
    /\ pc' = "save"
    /\ save_ctx' = ctx
    /\ save_attempt' = 1
    /\ save_calls' = Append(save_calls, [num |-> batch_num, data |-> bd, ctx |-> ctx])

\* ------------------------------------------------- _check_rate_limit_status
\* HTTP 200 of the probe (lines 61-66); scrape_tweets goes on to the loop
ProbeOk(rem, reset) ==
    /\ pc = "probe"
    /\ probed' = [status |-> "200", rem |-> rem]
    /\ requests_remaining' = (IF rem = Absent THEN DefaultRemaining ELSE rem)
    /\ rate_limit_reset' = (IF reset = Absent THEN 0 ELSE reset)
    /\ LoopTest(tweets_data)
    /\ UNCHANGED << cfgv, now, accv, processed_tweet_ids, next_token, session, poolv,
                    savev, full_attempt, filev, last_fetch, endv, intr_at,
                    item_faults, net_faults >>

\* variant: the result of the probe is ignored
ProbeIgnored ==
    /\ LoopTest(tweets_data)
    /\ UNCHANGED << outcome, returned >>

\* what scrape_tweets does when the probe returns False (lines 321-324)
ProbeRefused ==
    /\ pc' = "done"
    /\ outcome' = "returned"
    /\ returned' = << >>
    /\ exit_reason' = "probe"

\* HTTP 429 of the probe (lines 67-71)
ProbeRateLimited(reset) ==
    /\ pc = "probe"
    /\ probed' = [status |-> "429", rem |-> Absent]
    /\ rate_limit_reset' = (IF reset = Absent THEN now + DefaultResetDelay ELSE reset)
    /\ ProbeRefused
    /\ UNCHANGED << cfgv, requests_remaining, now, accv, processed_tweet_ids, next_token,
                    session, attempt, poolv, savev, full_attempt, filev, last_fetch,
                    intr_at, item_faults, net_faults >>

\* any other status, or aiohttp.ClientError (lines 72-78)
ProbeFailed ==
    /\ pc = "probe"
    /\ probed' = [status |-> "failed", rem |-> Absent]
    /\ ProbeRefused
    /\ UNCHANGED << cfgv, ratev, accv, processed_tweet_ids, next_token,
                    session, attempt, poolv, savev, full_attempt, filev, last_fetch,
                    intr_at, item_faults, net_faults >>

\* ------------------------------------------------------ _check_rate_limit
\* the test of line 262; the time after the gate (lines 263-265); the
\* counters after the gate (lines 266-271)
GateWaits     == requests_remaining <= 0 /\ now < rate_limit_reset

\* variant: the gate does not sleep
GateNowNoWait == now

GateNow       == IF GateWaits THEN rate_limit_reset ELSE now
GateRemaining == IF requests_remaining <= 0 THEN DefaultRemaining ELSE requests_remaining
GateReset     == IF requests_remaining <= 0 THEN 0 ELSE rate_limit_reset

\* ---------------------------------------------------- _fetch_tweets_async
\* the request of line 292, sent after _init_session and the gate
Send(status) ==
    /\ session' = "open"
    /\ last_fetch' = [cursor |-> next_token, attempt |-> attempt, status |-> status,
                      at |-> GateNow]

\* variant: every failure of the fetch but 429 is retried
RetryableAll(status) == status # "429"

\* retry_if_exception_type((ClientConnectorError, ServerDisconnectedError))
\* (line 276): the failures tenacity retries
Retryable(status) == status = "transient"

\* the except branch of scrape_tweets that a failure of the fetch ends in
\* (lines 364-377); a retryable failure arrives there as tenacity's RetryError
Handler(status) ==
    CASE status = "429" -> "rate_limit"
      [] status = "403" -> "auth"
      [] status \in {"400", "500"} -> "api_error"
      [] OTHER -> "unexpected"

\* HTTP 200 with n items and, when more, a next token (lines 310-313), and
\* what scrape_tweets does with the response (lines 335-341, 361-363)
FetchOk(n, more, hdr) ==
    /\ pc = "fetch"
    /\ n \in 0..Min(MaxPageLen, Len(feed) - next_token)
    /\ n = 0 => ~more
    /\ Send("200")
    /\ requests_remaining' = (IF hdr = Absent THEN GateRemaining - 1 ELSE hdr)
    /\ rate_limit_reset' = GateReset
    /\ now' = GateNow
    /\ IF n = 0
       THEN /\ LoopExit("empty")
            /\ UNCHANGED poolv
       ELSE /\ futures' = [i \in 1..n |-> [src |-> next_token + i, st |-> "queued", res |-> "pending", late |-> FALSE]]
            /\ fidx' = 1
            /\ resp_next' = (IF more THEN next_token + n ELSE None)
            /\ pc' = "collect"
            /\ UNCHANGED exit_reason
    /\ UNCHANGED << cfgv, accv, processed_tweet_ids, next_token, attempt, savev,
                    full_attempt, filev, probed, endv, intr_at, item_faults, net_faults >>

\* HTTP 429 (lines 293-300) and the handler of scrape_tweets (lines 364-368)
FetchRateLimited(hdr) ==
    /\ pc = "fetch"
    /\ Send("429")
    /\ LET reset_time == IF hdr = Absent THEN GateNow + DefaultResetDelay ELSE hdr
       IN  /\ rate_limit_reset' = reset_time
           /\ requests_remaining' = 0
           /\ now' = GateNow + Max(reset_time - GateNow, 1)
    /\ LoopExit(Handler("429"))
    /\ UNCHANGED << cfgv, accv, processed_tweet_ids, next_token, attempt, poolv, savev,
                    full_attempt, filev, probed, endv, intr_at, item_faults, net_faults >>

\* a fetch attempt that raises: retried by tenacity while it is retryable and
\* attempts are left (lines 273-277), else it ends the loop (lines 364-377)
FetchFails(status) ==
    /\ pc = "fetch"
    /\ Send(status)
    /\ requests_remaining' = GateRemaining
    /\ rate_limit_reset' = GateReset
    /\ IF Retryable(status) /\ attempt < FetchAttempts
       THEN /\ attempt' = attempt + 1
            /\ now' = Clock(GateNow + BackoffDelay)
            /\ UNCHANGED << pc, exit_reason >>
       ELSE /\ now' = GateNow
            /\ LoopExit(Handler(status))
            /\ UNCHANGED attempt
    /\ UNCHANGED << cfgv, accv, processed_tweet_ids, next_token, poolv, savev,
                    full_attempt, filev, probed, endv, intr_at, item_faults >>

\* HTTP 403 (lines 301-303, 369-372)
FetchAuthError == FetchFails("403") /\ UNCHANGED net_faults

\* any other status than 200, 429, 403 (lines 304-309, 373-374)
FetchHttpError == \E status \in {"400", "500"} : FetchFails(status) /\ UNCHANGED net_faults

\* asyncio.TimeoutError of ClientTimeout(total=30): not a ClientError, not
\* retried (lines 47, 375-377)
FetchTimeout == FetchFails("timeout") /\ UNCHANGED net_faults

\* ClientConnectorError or ServerDisconnectedError raised by session.get
FetchTransient ==
    /\ net_faults < env.net
    /\ net_faults' = net_faults + 1
    /\ FetchFails("transient")

\* ------------------------------------------------------- the worker threads
FutureId(i) == feed[futures[i].src]

\* a worker is free for task i once fewer than max_workers of the tasks
\* submitted before it are unfinished (the work queue is FIFO, line 337)
WorkerFree(i) ==
    Cardinality({ j \in 1..(i - 1) : futures[j].st # "done" }) < max_workers

\* the test of _process_tweet (lines 164-166): what a worker sees for item i
Seen(i) == FutureId(i) = None \/ FutureId(i) \in processed_tweet_ids

\* _process_tweet up to the test of line 165, run by a worker thread
WorkerCheck(i) ==
    /\ i \in 1..Len(futures)
    /\ futures[i].st = "queued"
    /\ WorkerFree(i)
    /\ futures' = [futures EXCEPT ![i] =
                     IF Seen(i) THEN [@ EXCEPT !.st = "done", !.res = "none"]
                                ELSE [@ EXCEPT !.st = "checked"]]
    /\ UNCHANGED << cfgv, pc, accv, processed_tweet_ids, next_token, ratev, session,
                    attempt, fidx, resp_next, savev, full_attempt, filev, probed, last_fetch,
                    exit_reason, endv, intr_at, item_faults, net_faults >>

\* created_at_str.replace(...) on None raises AttributeError, which
\* `except (ValueError, TypeError)` does not catch (lines 185-187)
DateRaises(k) == RawDate(k) = "none"

\* _process_tweet from line 167: the id is added, the record is built
\* (lines 168-245), or an extractor raises (e.g. entities is None, line 170)
\* or the date of the item does (line 185)
WorkerFinish(i, ok) ==
    /\ i \in 1..Len(futures)
    /\ futures[i].st = "checked"
    /\ DateRaises(futures[i].src) => ~ok
    /\ (~ok /\ ~DateRaises(futures[i].src)) => item_faults < env.item
    /\ item_faults' = (IF ok \/ DateRaises(futures[i].src) THEN item_faults
                                                            ELSE item_faults + 1)
    /\ processed_tweet_ids' = processed_tweet_ids \cup {FutureId(i)}
    /\ futures' = [futures EXCEPT ![i] =
                     [@ EXCEPT !.st = "done", !.res = IF ok THEN "rec" ELSE "exc"]]
    /\ UNCHANGED << cfgv, pc, accv, next_token, ratev, session,
                    attempt, fidx, resp_next, savev, full_attempt, filev, probed, last_fetch,
                    exit_reason, endv, intr_at, net_faults >>

\* ------------------------------------------- the for loop over the futures
\* variant: the futures are visited last to first
FutureAtReversed(p) == futures[Len(futures) + 1 - p]

\* `for future in futures` (line 342): the future the loop visits at step p
FutureAt(p) == futures[p]

\* variant: the flush test with > for >=
BatchFullLate(bd) == Len(bd) > batch_size

\* `if len(batch_data) >= self.batch_size` (line 348)
BatchFull(bd) == Len(bd) >= batch_size

\* future.result() gives a record: lines 344-353
CollectRecord ==
    /\ pc = "collect"
    /\ FutureAt(fidx).st = "done"
    /\ FutureAt(fidx).res = "rec"
    /\ LET rec == Record(FutureAt(fidx).src)
           td  == Append(tweets_data, rec)
           bd  == Append(batch_data, rec)
       IN  /\ tweets_data' = td
           /\ batch_data' = bd
           /\ IF BatchFull(bd)
              THEN /\ StartSave(bd, "loop")
                   /\ UNCHANGED fidx
              ELSE /\ LimitCheck(td)
                   /\ UNCHANGED savev
    /\ UNCHANGED << cfgv, batch_num, processed_tweet_ids, next_token, ratev, session,
                    attempt, futures, resp_next, full_attempt, filev, probed, last_fetch,
                    exit_reason, endv, intr_at, item_faults, net_faults >>

\* variant: a failure of one item ends the for loop over the page
SkipItemAborts ==
    /\ pc' = "join"
    /\ UNCHANGED fidx

\* `except Exception as e: logger.error(...)` inside the for loop (lines
\* 354-355): the loop goes on with the next future
SkipItem == NextFuture

\* future.result() gives None, or raises what the task raised: lines 344-345,
\* 354-355
CollectSkip ==
    /\ pc = "collect"
    /\ FutureAt(fidx).st = "done"
    /\ FutureAt(fidx).res \in {"none", "exc"}
    /\ IF FutureAt(fidx).res = "exc" THEN SkipItem ELSE NextFuture
    /\ UNCHANGED << cfgv, accv, processed_tweet_ids, next_token, ratev, session,
                    attempt, futures, resp_next, savev, full_attempt, filev, probed, last_fetch,
                    exit_reason, endv, intr_at, item_faults, net_faults >>

\* future.result(timeout=10) raises TimeoutError: the task goes on running,
\* the loop goes to the next future (lines 344, 354-355)
ResultTimeout ==
    /\ pc = "collect"
    /\ FutureAt(fidx).st # "done"
    /\ item_faults < env.item
    /\ item_faults' = item_faults + 1
    /\ futures' = [futures EXCEPT ![fidx].late = TRUE]
    /\ SkipItem
    /\ UNCHANGED << cfgv, accv, processed_tweet_ids, next_token, ratev, session,
                    attempt, resp_next, savev, full_attempt, filev, probed, last_fetch,
                    exit_reason, endv, intr_at, net_faults >>

\* variant: a missing next token is not noticed
NoMoreTweetsNever(token) == FALSE

\* `if not next_token` (line 357)
NoMoreTweets(token) == token = None

\* the end of the with block (shutdown(wait=True)) and lines 356-360
ExitPool ==
    /\ pc = "join"
    /\ AllDone
    /\ next_token' = resp_next
    /\ IF NoMoreTweets(resp_next)
       THEN LoopExit("no_more")
       ELSE /\ pc' = "pace"
            /\ UNCHANGED exit_reason
    /\ UNCHANGED << cfgv, accv, processed_tweet_ids, ratev, session, attempt, poolv,
                    savev, full_attempt, filev, probed, last_fetch, endv, intr_at,
                    item_faults, net_faults >>

\* asyncio.sleep(1.1) (line 360), then the loop test
Pace ==
    /\ pc = "pace"
    /\ now' = Clock(now + PaceDelay)
    /\ LoopTest(tweets_data)
    /\ UNCHANGED << cfgv, accv, processed_tweet_ids, next_token, requests_remaining,
                    rate_limit_reset, session, poolv, savev, full_attempt, filev,
                    probed, last_fetch, endv, intr_at, item_faults, net_faults >>
\* ------------------------------------------------------------ _save_batch
\* variant: after an in-loop flush the batch number is not advanced
SaveReturnSameNumber ==
    CASE save_ctx = "loop" ->
            /\ batch_data' = << >>
            /\ batch_num' = batch_num
            /\ LimitCheck(tweets_data)
            /\ UNCHANGED << full_attempt, outcome, returned, session, exit_reason >>
      [] save_ctx = "final" ->
            /\ FullStage
            /\ UNCHANGED << batch_data, batch_num, fidx, exit_reason >>
      [] save_ctx = "intr" ->
            /\ pc' = "kb_full"
            /\ UNCHANGED << batch_data, batch_num, fidx, full_attempt, outcome,
                            returned, session, exit_reason >>

\* the return of _save_batch to its call site: line 350-353 in the loop,
\* line 380 after the loop, line 397 in the interrupt handler
SaveReturn ==
    CASE save_ctx = "loop" ->
            /\ batch_data' = << >>
            /\ batch_num' = batch_num + 1
            /\ LimitCheck(tweets_data)
            /\ UNCHANGED << full_attempt, outcome, returned, session, exit_reason >>
      [] save_ctx = "final" ->
            /\ FullStage
            /\ UNCHANGED << batch_data, batch_num, fidx, exit_reason >>
      [] save_ctx = "intr" ->
            /\ pc' = "kb_full"
            /\ UNCHANGED << batch_data, batch_num, fidx, full_attempt, outcome,
                            returned, session, exit_reason >>

\* variant: after the last failed attempt the failure is raised and ends the loop
SaveRaises ==
    /\ LoopExit("unexpected")
    /\ UNCHANGED << batch_data, batch_num, fidx, full_attempt, outcome, returned, session >>

\* line 258: all attempts failed; the failure is logged and the call returns
SaveGivesUp == SaveReturn

\* an attempt of _save_batch that writes the file (lines 251-254)
SaveBatchOk ==
    /\ pc = "save"
    /\ batch_files' = [batch_files EXCEPT ![batch_num] = Written(batch_data)]
    /\ SaveReturn
    /\ UNCHANGED << cfgv, tweets_data, processed_tweet_ids, next_token, ratev, attempt,
                    futures, resp_next, savev, output_file, full_writes, write_faults,
                    probed, last_fetch, intr_at, item_faults, net_faults >>

\* an attempt of _save_batch that raises (lines 255-257): open failed and the
\* file is as it was, or json.dump failed and the file is left truncated
SaveBatchFail(partial) ==
    /\ pc = "save"
    /\ write_faults < env.write
    /\ write_faults' = write_faults + 1
    /\ batch_files' = IF partial THEN [batch_files EXCEPT ![batch_num] = PartialFile]
                                 ELSE batch_files
    /\ IF save_attempt < SaveAttempts
       THEN /\ save_attempt' = save_attempt + 1
            /\ UNCHANGED << pc, batch_data, batch_num, fidx, full_attempt, outcome,
                            returned, session, exit_reason >>
       ELSE /\ SaveGivesUp
            /\ UNCHANGED save_attempt
    /\ UNCHANGED << cfgv, tweets_data, processed_tweet_ids, next_token, ratev, attempt,
                    futures, resp_next, save_ctx, save_calls, output_file, full_writes,
                    probed, last_fetch, intr_at, item_faults, net_faults >>

\* ------------------------------------------------ after the loop (378-392)
\* `if batch_data: self._save_batch(batch_data, batch_num)` (lines 378-379)
FinalBatch ==
    /\ pc = "final"
    /\ IF batch_data # << >>
       THEN /\ StartSave(batch_data, "final")
            /\ UNCHANGED << full_attempt, outcome, returned, session >>
       ELSE /\ FullStage
            /\ UNCHANGED savev
    /\ UNCHANGED << cfgv, accv, processed_tweet_ids, next_token, ratev, attempt, poolv,
                    filev, probed, last_fetch, exit_reason, intr_at, item_faults, net_faults >>

\* an attempt of the final write that succeeds (lines 383-386), then line 392
FullWriteOk ==
    /\ pc = "full"
    /\ output_file' = Written(tweets_data)
    /\ full_writes' = full_writes + 1
    /\ Return
    /\ UNCHANGED << cfgv, accv, processed_tweet_ids, next_token, ratev, attempt, poolv,
                    savev, full_attempt, batch_files, write_faults, probed, last_fetch,
                    exit_reason, intr_at, item_faults, net_faults >>

\* an attempt of the final write that raises (lines 387-389)
FullWriteFail(partial) ==
    /\ pc = "full"
    /\ write_faults < env.write
    /\ write_faults' = write_faults + 1
    /\ output_file' = (IF partial THEN PartialFile ELSE output_file)
    /\ full_writes' = full_writes + 1
    /\ IF full_attempt < FullAttempts
       THEN /\ full_attempt' = full_attempt + 1
            /\ UNCHANGED << pc, outcome, returned, session >>
       ELSE /\ Return
            /\ UNCHANGED full_attempt
    /\ UNCHANGED << cfgv, accv, processed_tweet_ids, next_token, ratev, attempt, poolv,
                    savev, batch_files, probed, last_fetch, exit_reason, intr_at,
                    item_faults, net_faults >>

\* ---------------------------------------------------------- the interrupt
\* asyncio.run(main(...)) (line 475) runs scrape_tweets as a task.  While the
\* task runs synchronous code (the futures loop, _save_batch, the final
\* write) a SIGINT raises KeyboardInterrupt there; while the task is suspended
\* in an await (the probe, the fetch and its sleeps, the pacing sleep) the
\* event loop gets the signal, and the task is cancelled: CancelledError is
\* raised at the await.
SyncPoints  == {"collect", "join", "save", "final", "full"}
AwaitPoints == {"probe", "fetch", "pace"}

Where == IF pc = "save" THEN "save_" \o save_ctx ELSE pc

\* KeyboardInterrupt in the try block: control goes to the handler of line 393
KeyboardInterrupt ==
    /\ pc \in SyncPoints
    /\ env.intr > 0
    /\ intr_at = "none"
    /\ intr_at' = Where
    /\ pc' = "kb"
    /\ exit_reason' = (IF exit_reason = "none" THEN "interrupt" ELSE exit_reason)
    /\ UNCHANGED << cfgv, accv, processed_tweet_ids, next_token, ratev, session, attempt,
                    poolv, savev, full_attempt, filev, probed, last_fetch, endv,
                    item_faults, net_faults >>

\* CancelledError at an await: no except clause matches it (lines 364, 375,
\* 393); inside the try block the finally clause closes the session (line 403)
Cancelled ==
    /\ pc \in AwaitPoints
    /\ env.intr > 0
    /\ intr_at = "none"
    /\ intr_at' = pc
    /\ pc' = "done"
    /\ outcome' = "cancelled"
    /\ session' = "closed"
    /\ exit_reason' = (IF pc = "probe" THEN "probe" ELSE "cancel")
    /\ UNCHANGED << cfgv, accv, processed_tweet_ids, next_token, ratev, attempt,
                    poolv, savev, full_attempt, filev, probed, last_fetch, returned,
                    item_faults, net_faults >>

\* the handler, once the with block has let the exception out (its exit waits
\* for the workers): `if batch_data: self._save_batch(...)` (lines 395-396)
KbBatch ==
    /\ pc = "kb"
    /\ AllDone
    /\ IF batch_data # << >>
       THEN StartSave(batch_data, "intr")
       ELSE /\ pc' = "kb_full"
            /\ UNCHANGED savev
    /\ UNCHANGED << cfgv, accv, processed_tweet_ids, next_token, ratev, session, attempt,
                    poolv, full_attempt, filev, probed, last_fetch, exit_reason, endv, intr_at,
                    item_faults, net_faults >>

\* the end of the handler: `raise` (line 401) and the finally clause
Reraise(how) ==
    /\ pc' = "done"
    /\ outcome' = how
    /\ session' = "closed"

\* `if self.tweets_data:` is false (line 397)
KbNothing ==
    /\ pc = "kb_full"
    /\ tweets_data = << >>
    /\ Reraise("interrupted")
    /\ UNCHANGED << cfgv, accv, processed_tweet_ids, next_token, ratev, attempt,
                    poolv, savev, full_attempt, filev, probed, last_fetch, exit_reason, returned,
                    intr_at, item_faults, net_faults >>

\* the single write of the handler succeeds (lines 398-401)
KbWriteOk ==
    /\ pc = "kb_full"
    /\ tweets_data # << >>
    /\ output_file' = Written(tweets_data)
    /\ full_writes' = full_writes + 1
    /\ Reraise("interrupted")
    /\ UNCHANGED << cfgv, accv, processed_tweet_ids, next_token, ratev, attempt,
                    poolv, savev, full_attempt, batch_files, write_faults, probed, last_fetch,
                    exit_reason, returned, intr_at, item_faults, net_faults >>

\* the single write of the handler raises: that exception leaves scrape_tweets
KbWriteFail(partial) ==
    /\ pc = "kb_full"
    /\ tweets_data # << >>
    /\ write_faults < env.write
    /\ write_faults' = write_faults + 1
    /\ output_file' = (IF partial THEN PartialFile ELSE output_file)
    /\ full_writes' = full_writes + 1
    /\ Reraise("error")
    /\ UNCHANGED << cfgv, accv, processed_tweet_ids, next_token, ratev, attempt,
                    poolv, savev, full_attempt, batch_files, probed, last_fetch,
                    exit_reason, returned, intr_at, item_faults, net_faults >>

\* --------------------------------------------------------------- the system
Next ==
    \/ \E rem \in env.probe_rem, reset \in env.probe_reset : ProbeOk(rem, reset)
    \/ \E reset \in {Absent, now + 2} : ProbeRateLimited(reset)
    \/ ProbeFailed
    \/ \E n \in 0..MaxPageLen, more \in BOOLEAN, hdr \in env.rem : FetchOk(n, more, hdr)
    \/ \E hdr \in {Absent, now, now + 2} : FetchRateLimited(hdr)
    \/ FetchAuthError
    \/ FetchHttpError
    \/ FetchTimeout
    \/ FetchTransient
    \/ \E i \in 1..MaxPageLen : WorkerCheck(i)
    \/ \E i \in 1..MaxPageLen, ok \in BOOLEAN : WorkerFinish(i, ok)
    \/ CollectRecord
    \/ CollectSkip
    \/ ResultTimeout
    \/ ExitPool
    \/ Pace
    \/ SaveBatchOk
    \/ \E partial \in BOOLEAN : SaveBatchFail(partial)
    \/ FinalBatch
    \/ FullWriteOk
    \/ \E partial \in BOOLEAN : FullWriteFail(partial)
    \/ KeyboardInterrupt
    \/ Cancelled
    \/ KbBatch
    \/ KbNothing
    \/ KbWriteOk
    \/ \E partial \in BOOLEAN : KbWriteFail(partial)

Spec == Init /\ [][Next]_vars

\* ============================================================ src/fb.py
\* `return posts_data` (lines 67, 71)
FbReturn(how) ==
    /\ fb_pc' = "done"
    /\ fb_outcome' = how
    /\ fb_returned' = posts_data

\* `if len(posts_data) >= total_limit: break` (lines 54-55)
FbLimitCheck(pd) ==
    fb_pc' = (IF Len(pd) >= fb_total_limit THEN "save" ELSE "iter")

\* get_posts yields a post that is mapped and appended (lines 25-55)
FbPostOk ==
    /\ fb_pc = "iter"
    /\ fb_yielded < MaxFbPosts
    /\ fb_yielded' = fb_yielded + 1
    /\ posts_data' = Append(posts_data, fb_yielded + 1)
    /\ FbLimitCheck(posts_data')
    /\ UNCHANGED << twv, fb_output_file, fb_writes, fb_outcome, fb_returned >>

\* get_posts yields a post whose mapping raises, e.g. no 'post_id' (lines
\* 31-34): logged, `continue` (lines 57-59)
FbPostBad ==
    /\ fb_pc = "iter"
    /\ fb_yielded < MaxFbPosts
    /\ fb_yielded' = fb_yielded + 1
    /\ UNCHANGED << twv, posts_data, fb_pc, fb_output_file, fb_writes, fb_outcome,
                    fb_returned >>

\* get_posts is exhausted: the for loop ends (line 25)
FbExhausted ==
    /\ fb_pc = "iter"
    /\ fb_pc' = "save"
    /\ UNCHANGED << twv, posts_data, fb_yielded, fb_output_file, fb_writes, fb_outcome,
                    fb_returned >>

\* get_posts raises while the next post is fetched: the handler of lines
\* 69-71 logs and returns posts_data
FbFatal ==
    /\ fb_pc = "iter"
    /\ FbReturn("source_error")
    /\ UNCHANGED << twv, posts_data, fb_yielded, fb_output_file, fb_writes >>

\* `if posts_data:` is false: line 62, then line 67
FbNothing ==
    /\ fb_pc = "save"
    /\ posts_data = << >>
    /\ FbReturn("returned")
    /\ UNCHANGED << twv, posts_data, fb_yielded, fb_output_file, fb_writes >>

\* the write of lines 63-65, then line 67
FbSaveOk ==
    /\ fb_pc = "save"
    /\ posts_data # << >>
    /\ fb_output_file' = Written(posts_data)
    /\ fb_writes' = fb_writes + 1
    /\ FbReturn("returned")
    /\ UNCHANGED << twv, posts_data, fb_yielded >>

\* the write of lines 63-64 raises: the handler of lines 69-71 returns
\* posts_data
FbSaveFail(partial) ==
    /\ fb_pc = "save"
    /\ posts_data # << >>
    /\ fb_output_file' = (IF partial THEN PartialFile ELSE fb_output_file)
    /\ fb_writes' = fb_writes + 1
    /\ FbReturn("write_error")
    /\ UNCHANGED << twv, posts_data, fb_yielded >>

FbNext ==
    \/ FbPostOk
    \/ FbPostBad
    \/ FbExhausted
    \/ FbFatal
    \/ FbNothing
    \/ FbSaveOk
    \/ \E partial \in BOOLEAN : FbSaveFail(partial)

\* a run of scrape_fb_posts; scrape_tweets is not run
FbInit == TwitterStart({[feed |-> ShortFeed, batch_size |-> 1, total_limit |-> 2,
                         env |-> Quiet]}) /\ FbStart

FbSpec == FbInit /\ [][FbNext]_vars
\* ================================================================ claims
\* the scrape_tweets loop was entered: the probe answered 200
InLoopRun == probed.status = "200"

Unique(s) == \A i, j \in 1..Len(s) : i # j => s[i].tweet_id # s[j].tweet_id

\* the calls of _save_batch made from the page loop
LoopCalls == { i \in 1..Len(save_calls) : save_calls[i].ctx = "loop" }

\* C1: in one run no tweet id occurs twice in the accumulator tweets_data,
\* nor twice in a batch handed to _save_batch or written to a batch file,
\* whatever the pages are and however the worker threads are scheduled.
C1_UniqueIds ==
    /\ Unique(tweets_data)
    /\ \A i \in 1..Len(save_calls) : Unique(save_calls[i].data)
    /\ \A n \in DOMAIN batch_files : Unique(batch_files[n].data)

\* C2: after a search request for cursor C is answered 429 (and no interrupt
\* has arrived) the loop has not ended: the collector has slept until the
\* reset time and is about to send the request for the same cursor C again.
C2_RateLimitRetriesSamePage ==
    (last_fetch.status = "429" /\ intr_at = "none") =>
        /\ exit_reason = "none"
        /\ pc = "fetch"
        /\ next_token = last_fetch.cursor
        /\ now >= rate_limit_reset

\* C3 as amended: with batch_size = 5, when the page loop has ended with 12
\* records accumulated, the loop has called _save_batch exactly twice, with
\* records 1-5 as batch 0 and records 6-10 as batch 1, and 2 records (11 and
\* 12) are left in the pending buffer, in no in-loop batch.
C3_BatchBoundary ==
    (batch_size = 5 /\ pc = "final" /\ Len(tweets_data) = 12) =>
        /\ Cardinality(LoopCalls) = 2
        /\ LoopCalls = {1, 2}
        /\ save_calls[1] = [num |-> 0, data |-> SubSeq(tweets_data, 1, 5), ctx |-> "loop"]
        /\ save_calls[2] = [num |-> 1, data |-> SubSeq(tweets_data, 6, 10), ctx |-> "loop"]
        /\ batch_data = SubSeq(tweets_data, 11, 12)
        /\ batch_num = 2

\* C3 as stated: after the two full batches 1 record remains.
C3_OneRecordRemains ==
    (batch_size = 5 /\ pc = "final" /\ Len(tweets_data) = 12) =>
        /\ Cardinality(LoopCalls) = 2
        /\ Len(batch_data) = 1

\* C3 witness: the loop has ended with batch_size 5 and 12 records.
C3_Witness == batch_size = 5 /\ pc = "final" /\ Len(tweets_data) = 12
\* the last answer was a successful page without a next token, or without items
LastPage ==
    /\ last_fetch.status = "200"
    /\ exit_reason = "empty" \/ resp_next = None

\* the records of the current page that the workers built and the loop did
\* not give up waiting for
PageRecords == { Record(futures[i].src) : i \in { j \in 1..Len(futures) :
                     futures[j].res = "rec" /\ ~futures[j].late } }

InSeq(r, s) == \E i \in 1..Len(s) : s[i] = r

\* C4: once a 200 response has come without a next token or without items,
\* no further search request is sent and the loop is left by the branch
\* "no more tweets" or "no tweets found", not by an error branch; unless an
\* interrupt arrives, scrape_tweets returns the accumulator, which, when it
\* is below total_limit, holds every surviving record of that page.
C4_GracefulExhaustion ==
    /\ [](LastPage => pc \notin {"fetch", "pace"})
    /\ [](LastPage => exit_reason \in {"none", "empty", "no_more", "interrupt"})
    /\ [][LastPage => last_fetch' = last_fetch]_vars
    /\ []((LastPage /\ pc = "done" /\ intr_at = "none") =>
            /\ exit_reason \in {"empty", "no_more"}
            /\ outcome = "returned"
            /\ returned = tweets_data
            /\ (exit_reason = "no_more" /\ Len(tweets_data) < total_limit) =>
                   \A r \in PageRecords : InSeq(r, tweets_data))

\* C4 witness: the run has returned fewer than total_limit records after a
\* page without a next token that contributed a record.
C4_Witness ==
    /\ LastPage /\ pc = "done" /\ outcome = "returned"
    /\ exit_reason = "no_more"
    /\ Len(returned) < total_limit
    /\ PageRecords # {}

FatalStatus == {"400", "500", "403", "timeout"}

\* C5: a fetch attempt is retried only after a transient network failure and
\* only once: a 4xx/5xx status, a 403 or a timeout ends the loop by its error
\* branch with no further request; a transient failure of the first attempt
\* leads to a second attempt with the same cursor, a transient failure of
\* the second attempt ends the loop, and a valid page on the second attempt
\* is processed like any page.
C5_RetryClassification ==
    /\ [](attempt <= FetchAttempts /\ last_fetch.attempt <= FetchAttempts)
    /\ [](last_fetch.status \in FatalStatus =>
            /\ pc \notin {"fetch", "pace", "collect", "join"}
            /\ exit_reason = Handler(last_fetch.status))
    /\ [][last_fetch.status \in FatalStatus => last_fetch' = last_fetch]_vars
    /\ []((last_fetch.status = "transient" /\ last_fetch.attempt < FetchAttempts
             /\ intr_at = "none") =>
            /\ pc = "fetch"
            /\ attempt = last_fetch.attempt + 1
            /\ next_token = last_fetch.cursor
            /\ exit_reason = "none")
    /\ []((last_fetch.status = "transient" /\ last_fetch.attempt = FetchAttempts) =>
            /\ pc \notin {"fetch", "pace", "collect", "join"}
            /\ exit_reason = "unexpected")
    /\ [][(last_fetch.status = "transient" /\ last_fetch.attempt = FetchAttempts)
            => last_fetch' = last_fetch]_vars
    /\ [][(pc = "fetch" /\ attempt = FetchAttempts /\ last_fetch'.status = "200") =>
            /\ last_fetch'.cursor = next_token
            /\ pc' = "collect" \/ exit_reason' = "empty"]_vars

\* C5 witness: the second attempt for a page, made after a transient failure,
\* returned a page, and a record of it has been accumulated.
C5_Witness ==
    /\ last_fetch.status = "200" /\ last_fetch.attempt = FetchAttempts
    /\ net_faults > 0
    /\ pc = "join"
    /\ \E r \in PageRecords : InSeq(r, tweets_data)

\* C6: the accumulator and the pending buffer hold their records in the
\* order of the raw items they came from (within a page and from page to
\* page), and the accumulator only grows at its end, however the worker
\* threads are scheduled.
C6_PageOrder ==
    /\ [](\A i, j \in 1..Len(tweets_data) : i < j => tweets_data[i].src < tweets_data[j].src)
    /\ [](\A i, j \in 1..Len(batch_data) : i < j => batch_data[i].src < batch_data[j].src)
    /\ [][tweets_data' = tweets_data
            \/ (Len(tweets_data') = Len(tweets_data) + 1
                /\ SubSeq(tweets_data', 1, Len(tweets_data)) = tweets_data)]_vars

\* C6 witness: the third task of a page has finished with a record before the
\* second, the record of the first item is the last of the accumulator, and
\* the loop waits for the second.
C6_Witness ==
    /\ pc = "collect" /\ fidx = 2 /\ Len(futures) >= 3
    /\ futures[2].st # "done"
    /\ futures[3].res = "rec"
    /\ tweets_data # << >>
    /\ tweets_data[Len(tweets_data)] = Record(futures[1].src)
NoFiles ==
    /\ output_file = NoFile
    /\ \A n \in DOMAIN batch_files : batch_files[n] = NoFile

\* nothing was collected, written or requested from the search endpoint
NothingDone ==
    /\ last_fetch = NoFetch
    /\ tweets_data = << >>
    /\ save_calls = << >>
    /\ full_writes = 0
    /\ NoFiles

\* C7 as amended: no search request is sent before the probe has answered;
\* when the probe answers 429, another status than 200, or fails, the run
\* ends at once returning an empty list, with no file written and no search
\* request sent; a 200 answer of the probe that reports zero remaining calls
\* does not end the run: the loop is entered, and its first search request
\* is sent no earlier than the reset time the probe reported.
C7_ProbeGate ==
    /\ [](pc = "probe" => NothingDone)
    /\ [](probed.status \in {"429", "failed"} =>
            /\ pc = "done"
            /\ outcome = "returned"
            /\ returned = << >>
            /\ NothingDone)
    /\ [][(pc = "probe" /\ probed'.status = "200") => pc' = "fetch"]_vars
    /\ [][(probed = [status |-> "200", rem |-> 0] /\ last_fetch = NoFetch
             /\ last_fetch' # NoFetch) =>
            /\ now' >= rate_limit_reset
            /\ now' >= now]_vars

\* C7 as stated: also a probe answer that reports zero remaining calls ends
\* the run at once, with nothing collected, written or requested.
C7_ZeroRemainingEndsRun ==
    (probed.status \in {"429", "failed"} \/ probed = [status |-> "200", rem |-> 0]) =>
        /\ pc = "done"
        /\ NothingDone

\* C7 witness: the probe was answered 429 and the run has returned.
C7_Witness == probed.status = "429" /\ pc = "done" /\ outcome = "returned"

\* C8: when scrape_tweets has ended after entering the loop, a non-empty
\* pending buffer has been handed to _save_batch exactly once, and a
\* non-empty accumulator is in the dataset file or as many as 3 attempts to
\* write it have been made.
C8_FinalPersistence ==
    (pc = "done" /\ InLoopRun) =>
        /\ batch_data # << >> =>
              Cardinality({ i \in 1..Len(save_calls) : save_calls[i].num = batch_num }) = 1
        /\ tweets_data # << >> =>
              \/ output_file = Written(tweets_data)
              \/ full_writes = FullAttempts

\* the in-loop call of _save_batch that is running has failed all its attempts
FlushFailed(i) ==
    /\ save_calls[i].ctx = "loop"
    /\ batch_files[save_calls[i].num] # Written(save_calls[i].data)

\* every record of s is in t
Within(s, t) == \A i \in 1..Len(s) : InSeq(s[i], t)

\* C9: a persistence failure removes no record from the accumulator; when the
\* last attempt of an in-loop flush fails, the buffer is cleared, the batch
\* number advances and the loop goes on with the futures of the page; the
\* records of every batch handed to _save_batch stay in the accumulator, in
\* the returned list and in the dataset file when it is written.
C9_FlushFailureKeepsRecords ==
    /\ [][Len(tweets_data') >= Len(tweets_data)
            /\ SubSeq(tweets_data', 1, Len(tweets_data)) = tweets_data]_vars
    /\ [][(pc = "save" /\ save_ctx = "loop" /\ save_attempt = SaveAttempts
             /\ write_faults' # write_faults) =>
            /\ batch_data' = << >>
            /\ batch_num' = batch_num + 1
            /\ pc' \in {"collect", "join"}
            /\ exit_reason' = exit_reason
            /\ outcome' = "running"]_vars
    /\ [](\A i \in 1..Len(save_calls) :
            /\ Within(save_calls[i].data, tweets_data)
            /\ outcome = "returned" /\ InLoopRun => Within(save_calls[i].data, returned)
            /\ output_file.st = "written" /\ pc = "done" =>
                   Within(save_calls[i].data, output_file.data))

\* C9 witness: the first in-loop batch was never written, a record was
\* accumulated after it, and the run returned all records and wrote them.
C9_Witness ==
    /\ pc = "done" /\ outcome = "returned"
    /\ Len(save_calls) >= 1 /\ FlushFailed(1)
    /\ Len(returned) > Len(save_calls[1].data)
    /\ output_file = Written(returned)

\* C10: when an interrupt has arrived after the loop was entered and
\* scrape_tweets has ended, it has ended by raising, not by returning, the
\* session is closed, a non-empty pending buffer was handed to _save_batch by
\* the handler and a non-empty accumulator was written to the dataset file
\* or the write was attempted.
C10_InterruptPersists ==
    (pc = "done" /\ intr_at \notin {"none", "probe"}) =>
        /\ outcome \in {"interrupted", "cancelled"}
        /\ session = "closed"
        /\ batch_data # << >> =>
              \E i \in 1..Len(save_calls) :
                  save_calls[i] = [num |-> batch_num, data |-> batch_data, ctx |-> "intr"]
        /\ tweets_data # << >> => full_writes > 0

\* an item of the current page whose normalization failed: its task raised,
\* or the loop gave up waiting for its result
FailedItems == { j \in 1..Len(futures) : futures[j].res = "exc" \/ futures[j].late }

\* C11: a normalization failure of one item (its task raises, or its result
\* is not there after the timeout) changes neither the accumulator nor the
\* buffer and does not end the page or the run: the loop goes to the next
\* future; when the page is left without an interrupt the cursor is the
\* next token of that page, the loop ends there only if the page had no next
\* token, and every record the other tasks built is in the accumulator unless
\* total_limit was reached.
C11_ItemFailureIsLocal ==
    /\ [][(pc = "collect" /\ intr_at' = intr_at /\ futures' # futures
             /\ (futures[fidx].res = "exc" \/ futures[fidx].st # "done")) =>
            \/ UNCHANGED << pc, fidx, accv >>
            \/ futures'[fidx].late]_vars
    /\ [][(pc = "collect" /\ intr_at' = intr_at /\ << pc, fidx >>' # << pc, fidx >>
             /\ (futures[fidx].res = "exc" \/ futures[fidx].st # "done")) =>
            /\ tweets_data' = tweets_data
            /\ batch_data' = batch_data
            /\ pc' = (IF fidx < Len(futures) THEN "collect" ELSE "join")
            /\ fidx' = (IF fidx < Len(futures) THEN fidx + 1 ELSE fidx)
            /\ exit_reason' = exit_reason
            /\ outcome' = "running"]_vars
    /\ [][(pc = "join" /\ pc' \notin {"join", "kb"} /\ FailedItems # {}) =>
            /\ next_token' = resp_next
            /\ pc' = (IF resp_next = None THEN "final" ELSE "pace")
            /\ exit_reason' = (IF resp_next = None THEN "no_more" ELSE "none")
            /\ Len(tweets_data) < total_limit =>
                   \A r \in PageRecords : InSeq(r, tweets_data)]_vars

\* C11 witness: the loop pauses before the next fetch after a page in which
\* one item failed and another gave a record that was accumulated.
C11_Witness ==
    /\ pc = "pace"
    /\ FailedItems # {}
    /\ next_token = resp_next
    /\ \E r \in PageRecords : InSeq(r, tweets_data)

\* a step that makes a fetch attempt: the gate, then the request
FetchAttempt == pc = "fetch" /\ intr_at' = intr_at

\* C12: every fetch attempt, a retry too, passes the gate first: a request
\* is sent while requests_remaining is 0 (or less) only at or after
\* rate_limit_reset, and exactly at rate_limit_reset when the gate had to
\* wait; in both cases the counters are reset to 900 remaining and reset
\* time 0 before the request (the answer then counts from there), and the
\* probe is not asked again.
C12_GateBeforeEveryFetch ==
    /\ [][FetchAttempt =>
            /\ last_fetch'.cursor = next_token /\ last_fetch'.attempt = attempt
            /\ last_fetch'.at >= now
            /\ probed' = probed]_vars
    /\ [][(FetchAttempt /\ requests_remaining <= 0) =>
            /\ last_fetch'.at >= rate_limit_reset
            /\ now < rate_limit_reset => last_fetch'.at = rate_limit_reset
            /\ last_fetch'.status # "429" => rate_limit_reset' = 0
            /\ last_fetch'.status \notin {"200", "429"} =>
                   requests_remaining' = DefaultRemaining
            /\ last_fetch'.status = "200" =>
                   requests_remaining' \in ({DefaultRemaining - 1} \cup env.rem) \ {Absent}]_vars

\* C12 witness: the probe reported 0 remaining calls and a reset time in the
\* future; the first search request was sent at that reset time, and the
\* counters were reset to the default before it.
C12_Witness ==
    /\ probed = [status |-> "200", rem |-> 0]
    /\ last_fetch.cursor = None /\ last_fetch.attempt = 1 /\ last_fetch.status = "200"
    /\ last_fetch.at = MaxTime - 1
    /\ requests_remaining = DefaultRemaining - 1
    /\ rate_limit_reset = 0

\* the record says that its timestamp is a fallback, not the platform's date
Flagged(r) == "timestamp_fallback" \in DOMAIN r

\* C13: a raw item whose 'created_at' is missing or is no ISO date is kept:
\* its task does not raise; and the record made from it carries a flag that
\* tells its timestamp is a fallback.
C13_FallbackFlagged ==
    /\ \A j \in 1..Len(futures) :
           RawDate(futures[j].src) # "iso" => futures[j].res # "exc"
    /\ \A i \in 1..Len(tweets_data) :
           RawDate(tweets_data[i].src) # "iso" => Flagged(tweets_data[i])

\* C14: when scrape_fb_posts has ended with posts collected, a write of the
\* output file was attempted; and when it ended because the post source
\* raised, the posts it returns are in the output file.
C14_FatalErrorPersists ==
    (fb_pc = "done" /\ posts_data # << >>) =>
        /\ fb_writes > 0
        /\ fb_outcome = "source_error" => fb_output_file = Written(fb_returned)

\* C15: the accumulator never holds more than total_limit records, also
\* when the page that reaches the limit has further items that survive; and
\* once it holds total_limit records no search request is sent.
C15_LimitRespected ==
    /\ [](Len(tweets_data) <= total_limit)
    /\ [](Len(tweets_data) >= total_limit => pc # "fetch")
    /\ [][Len(tweets_data) >= total_limit =>
            last_fetch' = last_fetch /\ tweets_data' = tweets_data]_vars

\* C15 witness: the limit was reached inside a page, the for loop has been
\* left, and a later item of the page has given a record that is not taken.
C15_Witness ==
    /\ pc = "join"
    /\ Len(tweets_data) = total_limit
    /\ \E j \in (fidx + 1)..Len(futures) :
           futures[j].res = "rec" /\ ~InSeq(Record(futures[j].src), tweets_data)

\* the coroutine is in the page loop between the processing of two items, or
\* has just left the loop
BetweenItems == InLoopRun /\ pc \in {"fetch", "collect", "join", "pace", "final"}

\* C16: between the processing of two items the accumulator is the
\* batch_num in-loop batches followed by the pending buffer, which is
\* shorter than batch_size; the i-th in-loop call of _save_batch got number
\* i - 1 and records (i-1)*batch_size+1 .. i*batch_size of the accumulator,
\* whether its write failed or not, so no in-loop number is used twice and
\* no record is in two batches; and when a run that was not interrupted has
\* returned, a non-empty residual buffer was handed over once more, as the
\* last call, under the number batch_num that no in-loop batch has.
C16_BatchAccounting ==
    /\ [](BetweenItems =>
            /\ Len(tweets_data) = batch_num * batch_size + Len(batch_data)
            /\ Len(batch_data) < batch_size
            /\ batch_data = SubSeq(tweets_data, batch_num * batch_size + 1, Len(tweets_data))
            /\ LoopCalls = 1..batch_num
            /\ Len(save_calls) = batch_num)
    /\ [](\A i \in LoopCalls :
            /\ save_calls[i].num = i - 1
            /\ Len(save_calls[i].data) = batch_size
            /\ save_calls[i].data =
                   SubSeq(tweets_data, (i - 1) * batch_size + 1, i * batch_size))
    /\ []((pc = "done" /\ outcome = "returned" /\ InLoopRun /\ intr_at = "none") =>
            /\ LoopCalls = 1..batch_num
            /\ IF batch_data = << >>
               THEN Len(save_calls) = batch_num
               ELSE /\ Len(save_calls) = batch_num + 1
                    /\ save_calls[batch_num + 1] =
                           [num |-> batch_num, data |-> batch_data, ctx |-> "final"]
                    /\ batch_data =
                           SubSeq(tweets_data, batch_num * batch_size + 1, Len(tweets_data)))
    /\ [][batch_num' \in {batch_num, batch_num + 1}]_vars

\* C16 witness: a run has returned after an in-loop flush whose 3 attempts
\* all failed, with a residual batch handed over under the next number.
C16_Witness ==
    /\ pc = "done" /\ outcome = "returned" /\ intr_at = "none"
    /\ batch_num >= 1 /\ FlushFailed(1)
    /\ batch_data # << >>
    /\ save_calls[Len(save_calls)] = [num |-> batch_num, data |-> batch_data, ctx |-> "final"]
====
